---------------------------- MODULE Spec2Model ----------------------------
(***************************************************************************)
(* The four durable lock-free queues of Sela and Petrank (LinkedQ,         *)
(* UnlinkedQ, OptLinkedQ, OptUnlinkedQ) as one state machine.  Init picks  *)
(* the engine; every enq/deq is a sequence of atomic steps, one per shared *)
(* access of the C++ code; persistent memory is a cache view (mem, QHead)   *)
(* over a durable image (pm, QHeadPm, nt) with asynchronous write-back.     *)
(*                                                                         *)
(* Persistence semantics (x86): a store reaches the cache; a cache line    *)
(* may be written back at any moment; FLUSH (clwb) only schedules a        *)
(* write-back, which is complete at the caller's next store fence; SFENCE  *)
(* and every lock-prefixed instruction (compare_exchange_strong is lock    *)
(* cmpxchg) are store fences; a non-temporal store sits in the caller's    *)
(* write-combining buffer until it drains or is fenced.  A node is 32-byte *)
(* aligned and lies in one cache line, so its durable image is always a    *)
(* snapshot of the node.  The model keeps, for every line, the set of      *)
(* snapshots the durable memory may hold (every content since the last     *)
(* write-back a fence completed); the crash picks one for each line.       *)
(***************************************************************************)
EXTENDS Integers, Sequences, FiniteSets, TLC

\* Number of enq/deq calls invoked in a crash-free execution.
MaxOps == 3
\* A crash happens while at most this many calls have been invoked; after
\* recover() one more call, by either thread, runs on the recovered queue.
MaxCrashOps == 2
\* In an execution whose allocators hand freed slots out again: the calls
\* of thread 1, and the calls of every other thread.
MaxChurnOps == 8
MaxStaleOps == 1

\* The threads that call enq/deq (thread 1 also constructs and recovers).
Threads == {1, 2}

Engines == {"LinkedQ", "UnlinkedQ", "OptLinkedQ", "OptUnlinkedQ"}

NULL == 0
\* The content of a pointer field that recovery leaves unwritten.
STALE == 0 - 1

\* Slots of one allocator chunk: ssmem hands them out in address order.
ChunkSlots == MaxOps + 3
Slot(t, k) == (t - 1) * ChunkSlots + k
Nodes == 1 .. (Cardinality(Threads) * ChunkSlots)
\* The cache line of the root Head (LinkedQ, UnlinkedQ).
HEADLINE == 0

VARIABLES
  engine,     \* the queue class of this behaviour
  phase,      \* "run" | "crashed" | "recovered"
  mem,        \* cache view of the node slots
  pm,         \* per slot: the images the durable memory may hold
  QHead,      \* root Head: [ptr, index, ver]
  QHeadPm,    \* the values durable Head may hold (LinkedQ, UnlinkedQ)
  QTail,      \* root Tail
  localData,  \* per thread: nodeToRetire, validBit, lastEnqueuesIndex
  nt,         \* durable words written non-temporally: headIndex, lastEnqueues
  wc,         \* per thread: non-temporal stores not yet in memory
  pend,       \* per thread: lines flushed and not yet fenced, <<line, ver>>
  pc,         \* per thread: position in enq/deq
  lv,         \* per thread: the locals of the running call
  nalloc,     \* per thread: slots handed out by the thread's allocator
  freed,      \* slots given back with ssmem_free and not handed out since
  ssmem,      \* the allocators: reuse, whether a freed slot is handed out
              \* again; pool, per thread the slots given back to it
  nOps,       \* calls invoked so far
  linkSeq,    \* history: nodes in the order of their link CAS (before a crash)
  nRemoved,   \* history: successful Head CASes (before a crash)
  enqDone,    \* history: nodes whose enq returned (before a crash)
  tr,         \* history: per thread, the calls that returned
  rec         \* history: the durable watermark at the crash, and what
              \* recover() produced

vars == <<engine, phase, mem, pm, QHead, QHeadPm, QTail, localData, nt, wc, pend,
          pc, lv, nalloc, freed, ssmem, nOps, linkSeq, nRemoved, enqDone, tr, rec>>

shared == <<mem, pm, QHead, QHeadPm, QTail>>
hist == <<linkSeq, nRemoved, enqDone, tr, rec>>

Max(S) == CHOOSE x \in S : \A y \in S : y <= x

\* Whether the execution may crash: only then the durable images and the
\* history are recorded.
Tracked == ~ssmem.reuse

IsOpt == engine \in {"OptLinkedQ", "OptUnlinkedQ"}
IsLinked == engine \in {"LinkedQ", "OptLinkedQ"}
IsUnlinked == engine \in {"UnlinkedQ", "OptUnlinkedQ"}

-----------------------------------------------------------------------------
(* Nodes.  One record per slot holds the fields of every node class:       *)
(*   item, next, pred            all engines (volatile node in Opt)        *)
(*   flag                        initialized (LinkedQ), linked (Unlinked)  *)
(*   index                       UnlinkedQ and both Opt engines            *)
(*   ppred                       PersistentNode::pred (OptLinkedQ)         *)
(* In the Opt engines a volatile node and its persistent node share a slot *)
(* number.  ver counts the writes to the durable part of the slot.         *)

ZeroNode == [item |-> 0, next |-> NULL, pred |-> NULL, flag |-> FALSE,
             index |-> 0, ppred |-> NULL, ver |-> 0, by |-> 0]

\* The part of a slot that lies in persistent memory and is read after a crash.
Image(r) == [item |-> r.item,
             next |-> IF engine = "LinkedQ" THEN r.next ELSE NULL,
             flag |-> r.flag, index |-> r.index, ppred |-> r.ppred,
             ver |-> r.ver]

\* A store: the slot's version grows when its durable part changes.
Store(old, new) ==
  IF Image(new) = Image(old) \/ ~Tracked THEN new ELSE [new EXCEPT !.ver = old.ver + 1]

\* The slot as it is found in the cache after a restart.
Reload(img) == [item |-> img.item, next |-> img.next, pred |-> STALE,
                flag |-> img.flag, index |-> img.index, ppred |-> img.ppred,
                ver |-> img.ver, by |-> 0]

ZeroSsmem == [reuse |-> FALSE, pool |-> [t \in Threads |-> << >>]]
ZeroLocal == [nodeToRetire |-> NULL, validBit |-> 1, lastEnqueuesIndex |-> 0]
\* A last-enqueue cell: the two words with their validity bits; pseq and iseq
\* record the write sequence (the call, 0 for a reset) that stored each word.
ZeroCell == [ptr |-> NULL, pbit |-> 0, index |-> 0, ibit |-> 0,
             pseq |-> 0, iseq |-> 0]
ZeroNt == [headIndex |-> 0, c0 |-> ZeroCell, c1 |-> ZeroCell]
ZeroLv == [node |-> NULL, tail |-> NULL, tnext |-> NULL, head |-> NULL,
           hidx |-> 0, hnext |-> NULL, np |-> NULL, item |-> 0, pos |-> 0,
           absOk |-> TRUE, absItem |-> 0, casSince |-> FALSE, call |-> 0,
           freedSince |-> FALSE, unfenced |-> FALSE]
NoRec == [nodes |-> << >>, sentinel |-> NULL, sentIndex |-> 0, watermark |-> 0,
          allocAt |-> << >>, opsAt |-> 0, sever |-> NULL, reinit |-> FALSE,
          failed |-> 0]

-----------------------------------------------------------------------------
(* Persistence primitives (include/utilities.h).                           *)

\* FLUSH(p): clwb of the line of p; complete at the thread's next fence.
FLUSH(pd, line, ver) == pd \cup {<<line, ver>>}

\* The durable images after thread t fences: of a line t flushed, no
\* image older than the flush can be what memory holds.
FencedPm(t) ==
  [n \in Nodes |->
     {img \in pm[n] : \A e \in pend[t] : e[1] = n => img.ver >= e[2]}]

\* Faulty variant of FencedHeadPm: the fence does not wait for the flush.
UnfencedHeadPm(t) == QHeadPm

FencedHeadPm(t) ==
  {h \in QHeadPm : \A e \in pend[t] : e[1] = HEADLINE => h.ver >= e[2]}

\* One non-temporal store w = [f, v, b] (word, value, validity bit) applied to the durable words of a thread.
ApplyNt(d, w) ==
  CASE w.f = "headIndex" -> [d EXCEPT !.headIndex = w.v]
    [] w.f = "c0ptr" -> [d EXCEPT !.c0.ptr = w.v, !.c0.pbit = w.b, !.c0.pseq = w.s]
    [] w.f = "c0idx" -> [d EXCEPT !.c0.index = w.v, !.c0.ibit = w.b, !.c0.iseq = w.s]
    [] w.f = "c1ptr" -> [d EXCEPT !.c1.ptr = w.v, !.c1.pbit = w.b, !.c1.pseq = w.s]
    [] w.f = "c1idx" -> [d EXCEPT !.c1.index = w.v, !.c1.ibit = w.b, !.c1.iseq = w.s]

RECURSIVE ApplyAllNt(_, _)
ApplyAllNt(d, ws) ==
  IF ws = << >> THEN d ELSE ApplyAllNt(ApplyNt(d, Head(ws)), Tail(ws))

FencedNt(t) == [nt EXCEPT ![t] = ApplyAllNt(nt[t], wc[t])]

\* The durable side of a step: every content a line takes may be written back.
Durable(basePm, baseHead) ==
  IF Tracked
  THEN /\ pm' = [n \in Nodes |-> basePm[n] \cup {Image(mem'[n])}]
       /\ QHeadPm' = IF IsOpt THEN baseHead ELSE baseHead \cup {QHead'}
  ELSE UNCHANGED <<pm, QHeadPm>>

\* A step without a fence.
NoFence == Durable(pm, QHeadPm)

\* A fence of thread t, after which t issues the flushes pd and the
\* non-temporal stores w (__writeq: movnti into the write-combining buffer).
FenceThen(t, pd, w) ==
  /\ Durable(FencedPm(t), FencedHeadPm(t))
  /\ nt' = FencedNt(t)
  /\ wc' = [wc EXCEPT ![t] = w]
  /\ pend' = [pend EXCEPT ![t] = pd]

\* SFENCE.
SFENCE(t) == FenceThen(t, {}, << >>)

\* Faulty variant of LockFence: a CAS that does not order the flushes.
LockNoFence(t) == NoFence /\ UNCHANGED <<nt, wc, pend>>

\* compare_exchange_strong (lock cmpxchg): the store fence it implies.
LockFence(t) == FenceThen(t, {}, << >>)

-----------------------------------------------------------------------------
(* History helpers.                                                        *)

\* The abstract FIFO queue: items linked and not yet removed.
AbsQ == [i \in 1 .. (Len(linkSeq) - nRemoved) |-> linkSeq[nRemoved + i].item]

\* The position of a node in link order (0: a sentinel that was never linked).
PosOf(n) ==
  IF \E i \in 1 .. Len(linkSeq) : linkSeq[i].n = n
  THEN CHOOSE i \in 1 .. Len(linkSeq) : linkSeq[i].n = n
  ELSE 0

\* Another thread's CAS succeeded: every running iteration takes note.
Notify(t) ==
  [u \in Threads |->
     IF u # t /\ pc[u] # "idle" THEN [lv[u] EXCEPT !.casSince = TRUE] ELSE lv[u]]

\* What is kept of a call where the history is not recorded: that it returned.
NoEntry == [op |-> "call", ok |-> FALSE, item |-> 0, pos |-> 0, absOk |-> TRUE,
            absItem |-> 0, ph |-> "run", call |-> 0]

Returned(t, op, ok, item, pos, absOk, absItem) ==
  IF Tracked
  THEN tr' = [tr EXCEPT ![t] = Append(@, [op |-> op, ok |-> ok, item |-> item,
                                           pos |-> pos, absOk |-> absOk,
                                           absItem |-> absItem, ph |-> phase,
                                           call |-> lv[t].call])]
  ELSE tr' = [tr EXCEPT ![t] = Append(@, NoEntry)]

Live == phase # "crashed"

\* A new call may start: the bound on the calls before the crash, or the one
\* call after recover().
MayInvoke(t) ==
  CASE ssmem.reuse -> Len(tr[t]) < (IF t = 1 THEN MaxChurnOps ELSE MaxStaleOps)
    [] phase = "run" -> nOps < MaxOps
    [] OTHER -> nOps = rec.opsAt

\* ssmem_alloc by thread t: the slot most recently given back to t's
\* allocator, or else the next slot of t's chunk.
AllocSlot(t) ==
  IF ssmem.pool[t] # << >> THEN Head(ssmem.pool[t]) ELSE Slot(t, nalloc[t] + 1)

CanAlloc(t) == ssmem.pool[t] # << >> \/ nalloc[t] < ChunkSlots

\* ssmem_free(n) by thread t: the slot goes to t's allocator.
FreeSlot(t, n) ==
  IF ssmem.reuse /\ n # NULL
  THEN [ssmem EXCEPT !.pool[t] = <<n>> \o @]
  ELSE ssmem

\* Thread t frees n: every thread that is between its load of n as head or
\* tail and its CAS takes note.
NotifyFree(t, n) ==
  [u \in Threads |->
     IF u # t /\ n # NULL /\ pc[u] # "idle" /\ n \in {lv[u].head, lv[u].tail}
     THEN [lv[u] EXCEPT !.freedSince = TRUE] ELSE lv[u]]

-----------------------------------------------------------------------------
(* enq                                                                     *)

\* Faulty variants of CasSucceeds: a CAS that ignores the expected value,
\* and one that never succeeds.
CasAlways(cur, expected) == TRUE
CasNever(cur, expected) == FALSE

\* compare_exchange_strong succeeds when the word holds the expected value.
CasSucceeds(cur, expected) == cur = expected

\* Faulty variant of initialize: the item is not stored.
initializeNoItem(r, item) ==
  [r EXCEPT !.next = NULL, !.flag = (engine = "LinkedQ")]

\* Node::initialize(item) on the node just allocated.
initialize(r, item) ==
  [r EXCEPT !.item = item, !.next = NULL, !.flag = (engine = "LinkedQ")]

\* The item of the next enq: one of its own, or always the same where the
\* history is not recorded.
NewItem == IF Tracked THEN nOps + 1 ELSE 1

\* allocNode(), initialize(item), and the first Tail.load() of the loop.
EnqInvoke(t) ==
  /\ Live /\ pc[t] = "idle" /\ MayInvoke(t) /\ CanAlloc(t)
  /\ LET n == AllocSlot(t) IN
       /\ mem' = [mem EXCEPT ![n] = Store(@, initialize(@, NewItem))]
       /\ lv' = [lv EXCEPT ![t] = [ZeroLv EXCEPT !.node = n, !.item = NewItem,
                                                 !.tail = QTail,
                                                 !.call = nOps + 1]]
  /\ IF ssmem.pool[t] # << >>
     THEN /\ ssmem' = [ssmem EXCEPT !.pool[t] = Tail(@)]
          /\ UNCHANGED nalloc
     ELSE /\ nalloc' = [nalloc EXCEPT ![t] = @ + 1]
          /\ UNCHANGED ssmem
  /\ freed' = freed \ {AllocSlot(t)}
  /\ nOps' = nOps + 1
  /\ pc' = [pc EXCEPT ![t] = "e_next"]
  /\ UNCHANGED QHead /\ NoFence
  /\ UNCHANGED <<engine, phase, QTail, localData, nt, wc, pend, hist>>

\* Node* tail = Tail.load();  (a later iteration of the loop)
EnqLoadTail(t) ==
  /\ Live /\ pc[t] = "e_load"
  /\ lv' = [lv EXCEPT ![t].tail = QTail, ![t].casSince = FALSE,
                      ![t].freedSince = FALSE]
  /\ pc' = [pc EXCEPT ![t] = "e_next"]
  /\ UNCHANGED <<engine, ssmem, phase, shared, localData, nt, wc, pend, nalloc, freed,
                 nOps, hist>>

\* Faulty variant of PrepareNode: the new node takes the index of the tail.
PrepareNodeSameIndex(r, tl) ==
  CASE engine = "LinkedQ" -> [r EXCEPT !.pred = tl]
    [] engine = "OptLinkedQ" -> [r EXCEPT !.pred = tl, !.ppred = tl]
    [] OTHER -> [r EXCEPT !.index = mem[tl].index]

\* The stores to the private node between the load of tail->next and the
\* release fence of OptLinkedQ (the other engines have no fence there).
PrepareNode(r, tl) ==
  CASE engine = "LinkedQ" -> [r EXCEPT !.pred = tl]
    [] engine = "OptLinkedQ" -> [r EXCEPT !.pred = tl, !.ppred = tl]
    [] OTHER -> [r EXCEPT !.index = mem[tl].index + 1]

\* Faulty variant of MayLink: the node is linked behind any tail.
MayLinkAlways(tailNext) == TRUE

\* if (tailNext == nullptr)
MayLink(tailNext) == tailNext = NULL

\* Node* tailNext = tail->next.load(); if null, prepare the node for the CAS.
EnqLoadNext(t) ==
  /\ Live /\ pc[t] = "e_next"
  /\ LET tl == lv[t].tail
         n  == lv[t].node
         nx == mem[tl].next IN
       IF MayLink(nx)
       THEN /\ mem' = [mem EXCEPT ![n] = Store(@, PrepareNode(@, tl))]
            /\ lv' = [lv EXCEPT ![t].tnext = nx]
            /\ pc' = [pc EXCEPT ![t] = "e_cas"]
       ELSE /\ lv' = [lv EXCEPT ![t].tnext = nx]
            /\ pc' = [pc EXCEPT ![t] = "e_help"]
            /\ UNCHANGED mem
  /\ UNCHANGED QHead /\ NoFence
  /\ UNCHANGED <<engine, ssmem, phase, QTail, localData, nt, wc, pend, nalloc, freed,
                 nOps, hist>>

\* OptLinkedQ, after the release fence: newNode->persistentNode->index.
SetIndex(m, n, tl) ==
  IF engine = "OptLinkedQ"
  THEN [m EXCEPT ![n] = Store(m[n], [m[n] EXCEPT !.index = m[tl].index + 1])]
  ELSE m

\* Where enq continues after its link CAS succeeded.
AfterLink ==
  CASE engine = "LinkedQ" -> "e_walk"
    [] engine = "OptLinkedQ" -> "e_tailcas"
    [] OTHER -> "e_mark"

\* tail->next.compare_exchange_strong(tailNext, newNode)
EnqLinkCAS(t) ==
  /\ Live /\ pc[t] = "e_cas"
  /\ LET tl == lv[t].tail
         n  == lv[t].node
         m1 == SetIndex(mem, n, tl) IN
       IF CasSucceeds(mem[tl].next, lv[t].tnext)
       THEN /\ mem' = [m1 EXCEPT ![tl] = Store(@, [@ EXCEPT !.next = n])]
            /\ lv' = [Notify(t) EXCEPT ![t].np = n]
            /\ pc' = [pc EXCEPT ![t] = AfterLink]
            /\ linkSeq' = IF phase = "run" /\ Tracked
                          THEN Append(linkSeq, [n |-> n, item |-> lv[t].item])
                          ELSE linkSeq
       ELSE /\ mem' = m1
            /\ lv' = [lv EXCEPT ![t].tnext = mem[tl].next]
            /\ pc' = [pc EXCEPT ![t] = "e_help"]
            /\ UNCHANGED linkSeq
  /\ UNCHANGED QHead /\ LockFence(t)
  /\ UNCHANGED <<engine, ssmem, phase, QTail, localData, nalloc, freed, nOps,
                 nRemoved, enqDone, tr, rec>>

\* Tail.compare_exchange_strong(tail, tailNext); then the loop starts over.
EnqHelp(t) ==
  /\ Live /\ pc[t] = "e_help"
  /\ IF CasSucceeds(QTail, lv[t].tail)
     THEN /\ QTail' = lv[t].tnext
          /\ lv' = Notify(t)
     ELSE UNCHANGED <<QTail, lv>>
  /\ UNCHANGED <<mem, QHead>> /\ LockFence(t)
  /\ pc' = [pc EXCEPT ![t] = "e_load"]
  /\ UNCHANGED <<engine, ssmem, phase, localData, nalloc, freed, nOps, hist>>

\* What a load of n->pred returns: a field recovery left unwritten holds
\* null or an older predecessor.
PredRead(n) ==
  IF mem[n].pred = STALE
  THEN {NULL} \cup {m \in Nodes : mem[m].next = n}
  ELSE {mem[n].pred}

\* One iteration of flushNotPersistedSuffix: LinkedQ flushes and then loads
\* pred; OptLinkedQ loads pred and flushes only if it is not null.
flushNotPersistedSuffix(t) ==
  /\ Live /\ pc[t] = "e_walk"
  /\ LET np == lv[t].np IN
     \E p \in PredRead(np) :
       IF engine = "LinkedQ"
       THEN /\ pend' = [pend EXCEPT ![t] = FLUSH(@, np, mem[np].ver)]
            /\ lv' = [lv EXCEPT ![t].np = p, ![t].unfenced = TRUE]
            /\ pc' = [pc EXCEPT ![t] = IF p = NULL THEN "e_tailcas" ELSE "e_walk"]
       ELSE IF p = NULL
            THEN /\ pc' = [pc EXCEPT ![t] = "e_rec"]
                 /\ lv' = [lv EXCEPT ![t].np = NULL]
                 /\ UNCHANGED pend
            ELSE /\ pend' = [pend EXCEPT ![t] = FLUSH(@, np, mem[np].ver)]
                 /\ lv' = [lv EXCEPT ![t].np = p, ![t].unfenced = TRUE]
                 /\ UNCHANGED pc
  /\ UNCHANGED <<engine, ssmem, phase, shared, localData, nt, wc, nalloc, freed, nOps,
                 hist>>

\* Faulty variant of MarkLinked: linked is never set.
MarkNothing(r) == r

\* UnlinkedQ, OptUnlinkedQ: newNode->linked = true;
MarkLinked(r) == [r EXCEPT !.flag = TRUE]

\* newNode->linked = true; FLUSH(newNode);
EnqMarkLinked(t) ==
  /\ Live /\ pc[t] = "e_mark"
  /\ LET n == lv[t].node
         r == Store(mem[n], MarkLinked(mem[n])) IN
       /\ mem' = [mem EXCEPT ![n] = r]
       /\ pend' = [pend EXCEPT ![t] = FLUSH(@, n, r.ver)]
  /\ lv' = [lv EXCEPT ![t].unfenced = TRUE]
  /\ pc' = [pc EXCEPT ![t] = "e_tailcas"]
  /\ UNCHANGED QHead /\ NoFence
  /\ UNCHANGED <<engine, ssmem, phase, QTail, localData, nt, wc, nalloc, freed,
                 nOps, hist>>

\* enq returns.
EnqReturn(t) ==
  /\ Returned(t, "enq", TRUE, lv[t].item, 0, TRUE, 0)
  /\ enqDone' = IF phase = "run" /\ Tracked THEN enqDone \cup {lv[t].node} ELSE enqDone
  /\ pc' = [pc EXCEPT ![t] = "idle"]

\* Tail.compare_exchange_strong(tail, newNode); the Unlinked engines return.
EnqTailCAS(t) ==
  /\ Live /\ pc[t] = "e_tailcas"
  /\ IF CasSucceeds(QTail, lv[t].tail)
     THEN QTail' = lv[t].node
     ELSE UNCHANGED QTail
  /\ UNCHANGED <<mem, QHead>> /\ LockFence(t)
  /\ IF IsUnlinked
     THEN /\ EnqReturn(t)
          /\ lv' = [(IF CasSucceeds(QTail, lv[t].tail) THEN Notify(t) ELSE lv)
                      EXCEPT ![t] = ZeroLv]
     ELSE /\ pc' = [pc EXCEPT ![t] =
                      IF engine = "LinkedQ" THEN "e_fin" ELSE "e_walk"]
          /\ lv' = IF CasSucceeds(QTail, lv[t].tail) THEN Notify(t) ELSE lv
          /\ UNCHANGED <<enqDone, tr>>
  /\ UNCHANGED <<engine, ssmem, phase, localData, nalloc, freed, nOps, linkSeq,
                 nRemoved, rec>>

\* recordLastEnqueue: the two non-temporal stores, each word with the
\* thread's validity bit, and the two toggles.
\* Faulty variant of FlipValidBit: the validity bit never alternates.
KeepValidBit(i, validBit) == validBit

\* validBit ^= i: the bit flips once both cells were written with it.
FlipValidBit(i, validBit) == IF i = 1 THEN 1 - validBit ELSE validBit

recordLastEnqueue(t) ==
  /\ Live /\ pc[t] = "e_rec"
  /\ LET i == localData[t].lastEnqueuesIndex
         b == localData[t].validBit
         seq == IF Tracked THEN lv[t].call ELSE 0 IN
       /\ wc' = [wc EXCEPT ![t] =
                   @ \o << [f |-> IF i = 0 THEN "c0ptr" ELSE "c1ptr",
                            v |-> lv[t].node, b |-> b, s |-> seq],
                           [f |-> IF i = 0 THEN "c0idx" ELSE "c1idx",
                            v |-> mem[lv[t].node].index, b |-> b,
                            s |-> seq] >>]
       /\ localData' = [localData EXCEPT
                          ![t].validBit = FlipValidBit(i, @),
                          ![t].lastEnqueuesIndex = 1 - i]
  /\ pc' = [pc EXCEPT ![t] = "e_fence"]
  /\ UNCHANGED <<engine, ssmem, phase, shared, nt, pend, lv, nalloc, freed, nOps, hist>>

\* OptLinkedQ: SFENCE(); newNode->pred.store(nullptr); break;
EnqFence(t) ==
  /\ Live /\ pc[t] = "e_fence"
  /\ mem' = [mem EXCEPT ![lv[t].node].pred = NULL]
  /\ UNCHANGED QHead /\ SFENCE(t)
  /\ EnqReturn(t)
  /\ lv' = [lv EXCEPT ![t] = ZeroLv]
  /\ UNCHANGED <<engine, ssmem, phase, QTail, localData, nalloc, freed, nOps, linkSeq,
                 nRemoved, rec>>

\* LinkedQ: newNode->pred.store(nullptr); break;
EnqFinish(t) ==
  /\ Live /\ pc[t] = "e_fin"
  /\ mem' = [mem EXCEPT ![lv[t].node].pred = NULL]
  /\ EnqReturn(t)
  /\ lv' = [lv EXCEPT ![t] = ZeroLv]
  /\ UNCHANGED <<engine, ssmem, phase, pm, QHead, QHeadPm, QTail, localData, nt, wc,
                 pend, nalloc, freed, nOps, linkSeq, nRemoved, rec>>

-----------------------------------------------------------------------------
(* deq                                                                     *)

\* The call and the first Head.load() of the loop (UnlinkedQ: the 16-byte pair).
DeqInvoke(t) ==
  /\ Live /\ pc[t] = "idle" /\ MayInvoke(t)
  /\ nOps' = nOps + 1
  /\ lv' = [lv EXCEPT ![t] = [ZeroLv EXCEPT !.head = QHead.ptr,
                                            !.hidx = QHead.index,
                                            !.call = nOps + 1]]
  /\ pc' = [pc EXCEPT ![t] = "d_next"]
  /\ UNCHANGED <<engine, ssmem, phase, shared, localData, nt, wc, pend, nalloc, freed,
                 hist>>

\* head = Head.load();  (a later iteration of the loop)
DeqLoadHead(t) ==
  /\ Live /\ pc[t] = "d_load"
  /\ lv' = [lv EXCEPT ![t].head = QHead.ptr, ![t].hidx = QHead.index,
                      ![t].casSince = FALSE, ![t].freedSince = FALSE]
  /\ pc' = [pc EXCEPT ![t] = "d_next"]
  /\ UNCHANGED <<engine, ssmem, phase, shared, localData, nt, wc, pend, nalloc, freed,
                 nOps, hist>>

\* Faulty variant of PersistHead: nothing is flushed or stored.
PersistNothing(t, index, headVer, retire) == [pd |-> {}, w |-> << >>]

\* Faulty variant of PersistHead: headIndex is stored one too large.
PersistHeadNextIndex(t, index, headVer, retire) ==
  IF IsOpt
  THEN [pd |-> {}, w |-> << [f |-> "headIndex", v |-> index + 1, b |-> 0, s |-> 0] >>]
  ELSE [pd |-> IF engine = "LinkedQ" /\ retire /\ localData[t].nodeToRetire # NULL
               THEN FLUSH(FLUSH({}, localData[t].nodeToRetire,
                                mem[localData[t].nodeToRetire].ver),
                          HEADLINE, headVer)
               ELSE FLUSH({}, HEADLINE, headVer),
        w |-> << >>]

\* What deq issues to make the head durable: FLUSH(&Head) (before it, in a
\* successful LinkedQ deq, the flush of the node to retire), or the
\* non-temporal store of an index into the thread's headIndex.
PersistHead(t, index, headVer, retire) ==
  IF IsOpt
  THEN [pd |-> {}, w |-> << [f |-> "headIndex", v |-> index, b |-> 0, s |-> 0] >>]
  ELSE [pd |-> IF engine = "LinkedQ" /\ retire /\ localData[t].nodeToRetire # NULL
               THEN FLUSH(FLUSH({}, localData[t].nodeToRetire,
                                mem[localData[t].nodeToRetire].ver),
                          HEADLINE, headVer)
               ELSE FLUSH({}, HEADLINE, headVer),
        w |-> << >>]

\* headNext = head->next.load(); on null: FLUSH(&Head) or __writeq(head->index).
DeqLoadNext(t) ==
  /\ Live /\ pc[t] = "d_next"
  /\ LET nx == mem[lv[t].head].next
         p  == PersistHead(t, mem[lv[t].head].index, QHead.ver, FALSE) IN
       IF nx = NULL
       THEN /\ lv' = [lv EXCEPT ![t].absOk = (Len(AbsQ) > 0),
                                 ![t].unfenced = (p.pd # {})]
            /\ pc' = [pc EXCEPT ![t] = "d_efence"]
            /\ pend' = [pend EXCEPT ![t] = @ \cup p.pd]
            /\ wc' = [wc EXCEPT ![t] = @ \o p.w]
       ELSE /\ lv' = [lv EXCEPT ![t].hnext = nx]
            /\ pc' = [pc EXCEPT ![t] = "d_cas"]
            /\ UNCHANGED <<pend, wc>>
  /\ UNCHANGED <<engine, ssmem, phase, shared, localData, nt, nalloc, freed, nOps, hist>>

\* Empty queue: SFENCE(); return false;
DeqEmptyFence(t) ==
  /\ Live /\ pc[t] = "d_efence"
  /\ UNCHANGED <<mem, QHead>> /\ SFENCE(t)
  /\ Returned(t, "deq", FALSE, 0, 0, lv[t].absOk, 0)
  /\ lv' = [lv EXCEPT ![t] = ZeroLv]
  /\ pc' = [pc EXCEPT ![t] = "idle"]
  /\ UNCHANGED <<engine, ssmem, phase, QTail, localData, nalloc, freed, nOps,
                 linkSeq, nRemoved, enqDone, rec>>

\* Faulty variant of PointerAndIndex: the index half is left zero.
PointerOnly(p, i) == [ptr |-> p, index |-> 0]

\* PointerAndIndex(p, i): the 16-byte Head of UnlinkedQ; the other engines
\* keep a pointer (index 0 here).
PointerAndIndex(p, i) ==
  [ptr |-> p, index |-> IF engine = "UnlinkedQ" THEN i ELSE 0]

\* Head.compare_exchange_strong(head, headNext); on success the item is read
\* and the flushes, or the store of headNext->index, are issued.
DeqHeadCAS(t) ==
  /\ Live /\ pc[t] = "d_cas"
  /\ LET hn == lv[t].hnext
         p  == PersistHead(t, mem[hn].index, QHead.ver + 1, TRUE) IN
       IF CasSucceeds(<<QHead.ptr, QHead.index>>, <<lv[t].head, lv[t].hidx>>)
       THEN /\ QHead' = [ptr |-> PointerAndIndex(hn, mem[hn].index).ptr,
                         index |-> PointerAndIndex(hn, mem[hn].index).index,
                         ver |-> IF Tracked THEN QHead.ver + 1 ELSE QHead.ver]
            /\ lv' = [Notify(t) EXCEPT
                        ![t].item = mem[hn].item,
                        ![t].pos = mem[hn].index,
                        ![t].absOk = (Len(AbsQ) > 0),
                        ![t].absItem = IF Len(AbsQ) > 0 THEN AbsQ[1] ELSE 0,
                        ![t].unfenced = (p.pd # {})]
            /\ nRemoved' = IF phase = "run" /\ Tracked THEN nRemoved + 1 ELSE nRemoved
            /\ pc' = [pc EXCEPT ![t] = "d_fence"]
            /\ mem' = [mem EXCEPT ![lv[t].head].by = t]
            /\ FenceThen(t, p.pd, p.w)
       ELSE /\ pc' = [pc EXCEPT ![t] = "d_load"]
            /\ UNCHANGED <<QHead, lv, nRemoved>>
            /\ UNCHANGED mem /\ LockFence(t)
  /\ UNCHANGED <<engine, ssmem, phase, QTail, localData, nalloc, freed, nOps,
                 linkSeq, enqDone, tr, rec>>

\* The stores of deq after its fence, on the new and on the old sentinel.
RetireStores(m, h, hn) ==
  CASE engine = "LinkedQ" ->
         [m EXCEPT ![hn].pred = NULL,
                   ![h] = Store(m[h], [m[h] EXCEPT !.flag = FALSE])]
    [] engine = "OptLinkedQ" -> [m EXCEPT ![hn].pred = NULL]
    [] OTHER -> m

\* SFENCE(); headNext->pred = null; free the node to retire; stash head;
\* return true;
DeqFence(t) ==
  /\ Live /\ pc[t] = "d_fence"
  /\ mem' = RetireStores(mem, lv[t].head, lv[t].hnext)
  /\ UNCHANGED QHead /\ SFENCE(t)
  /\ freed' = IF localData[t].nodeToRetire # NULL
              THEN freed \cup {localData[t].nodeToRetire} ELSE freed
  /\ ssmem' = FreeSlot(t, localData[t].nodeToRetire)
  /\ localData' = [localData EXCEPT ![t].nodeToRetire = lv[t].head]
  /\ Returned(t, "deq", TRUE, lv[t].item, lv[t].pos, lv[t].absOk, lv[t].absItem)
  /\ lv' = [NotifyFree(t, localData[t].nodeToRetire) EXCEPT ![t] = ZeroLv]
  /\ pc' = [pc EXCEPT ![t] = "idle"]
  /\ UNCHANGED <<engine, phase, QTail, nalloc, nOps, linkSeq, nRemoved,
                 enqDone, rec>>

-----------------------------------------------------------------------------
(* The crash.                                                              *)

\* The ways to pick one durable image for each of the slots 1 .. k.
RECURSIVE DurableChoices(_)
DurableChoices(k) ==
  IF k = 0 THEN {<< >>}
  ELSE {Append(c, img) : c \in DurableChoices(k - 1), img \in pm[k]}

\* The buffered non-temporal stores of a thread that reached memory: any of
\* them (they go to different words and are not ordered before a fence).
RECURSIVE SelectNt(_, _)
SelectNt(ws, S) ==
  IF ws = << >> THEN << >>
  ELSE (IF Len(ws) \in S THEN SelectNt(SubSeq(ws, 1, Len(ws) - 1), S) \o <<ws[Len(ws)]>>
        ELSE SelectNt(SubSeq(ws, 1, Len(ws) - 1), S))

\* Power failure: caches, buffers, volatile nodes and all threads are lost;
\* memory holds one of the images each line may have reached.
Crash ==
  /\ phase = "run" /\ nOps <= MaxCrashOps
  /\ phase' = "crashed"
  /\ \E c \in DurableChoices(Cardinality(Nodes)) :
       /\ mem' = [n \in Nodes |-> Reload(c[n])]
       /\ pm' = [n \in Nodes |-> {c[n]}]
  /\ \E h \in QHeadPm :
       /\ QHead' = IF IsOpt THEN [ptr |-> NULL, index |-> 0, ver |-> 0] ELSE h
       /\ QHeadPm' = {h}
  /\ \E S \in [Threads -> SUBSET (1 .. 2)] :
       /\ \A t \in Threads : S[t] \subseteq 1 .. Len(wc[t])
       /\ nt' = [t \in Threads |-> ApplyAllNt(nt[t], SelectNt(wc[t], S[t]))]
  /\ QTail' = NULL
  /\ localData' = [t \in Threads |-> ZeroLocal]
  /\ wc' = [t \in Threads |-> << >>]
  /\ pend' = [t \in Threads |-> {}]
  /\ pc' = [t \in Threads |-> "idle"]
  /\ lv' = [t \in Threads |-> ZeroLv]
  /\ rec' = [NoRec EXCEPT !.watermark =
                CASE IsOpt -> Max({nt'[t].headIndex : t \in Threads})
                  [] engine = "UnlinkedQ" -> QHead'.index
                  [] OTHER -> QHead'.ptr]
  /\ UNCHANGED <<engine, ssmem, nalloc, freed, nOps, linkSeq, nRemoved, enqDone, tr>>

-----------------------------------------------------------------------------
(* Construction.                                                           *)

Sentinel0 == Slot(1, 1)

\* The state each constructor leaves, with the allocators in state a.
Construct(a) ==
  /\ engine \in Engines
  /\ phase = "run"
  /\ mem = [n \in Nodes |->
              IF n = Sentinel0 /\ engine = "LinkedQ"
              THEN [ZeroNode EXCEPT !.flag = TRUE, !.ver = 1] ELSE ZeroNode]
  /\ pm = [n \in Nodes |-> {Image(mem[n])}]
  /\ QHead = [ptr |-> Sentinel0, index |-> 0, ver |-> 0]
  /\ QHeadPm = {QHead}
  /\ QTail = Sentinel0
  /\ localData = [t \in Threads |-> ZeroLocal]
  /\ nt = [t \in Threads |-> ZeroNt]
  /\ wc = [t \in Threads |-> << >>]
  /\ pend = [t \in Threads |-> {}]
  /\ pc = [t \in Threads |-> "idle"]
  /\ lv = [t \in Threads |-> ZeroLv]
  /\ nalloc = [t \in Threads |-> IF t = 1 THEN 1 ELSE 0]
  /\ freed = {}
  /\ ssmem = a
  /\ nOps = 0
  /\ linkSeq = << >>
  /\ nRemoved = 0
  /\ enqDone = {}
  /\ tr = [t \in Threads |-> << >>]
  /\ rec = NoRec

Init == Construct(ZeroSsmem)

\* The same with allocators that hand a freed slot out again at once.
ReuseInit == Construct([ZeroSsmem EXCEPT !.reuse = TRUE])

EnqStep(t) ==
  \/ EnqInvoke(t) \/ EnqLoadTail(t) \/ EnqLoadNext(t) \/ EnqLinkCAS(t)
  \/ EnqHelp(t) \/ flushNotPersistedSuffix(t) \/ EnqMarkLinked(t)
  \/ EnqTailCAS(t) \/ recordLastEnqueue(t) \/ EnqFence(t) \/ EnqFinish(t)

DeqStep(t) ==
  \/ DeqInvoke(t) \/ DeqLoadHead(t) \/ DeqLoadNext(t) \/ DeqEmptyFence(t)
  \/ DeqHeadCAS(t) \/ DeqFence(t)

ThreadStep(t) == EnqStep(t) \/ DeqStep(t)


-----------------------------------------------------------------------------
(* recover()                                                               *)

\* The chunk scan of the recovery: every slot of every chunk, in address order.
ChunkScan == Nodes

\* The slot ssmem hands to the recovering thread for a new sentinel.
RecoverySlot == Slot(1, nalloc[1] + 1)

\* The nodes reached from n over next, n included.
RECURSIVE Chain(_, _)
Chain(m, n) == IF n = NULL THEN << >> ELSE <<n>> \o Chain(m, m[n].next)

\* Faulty variant of getMaxLocalHeadIndex: the headIndex of the first thread.
getFirstLocalHeadIndex == nt[1].headIndex

\* getMaxLocalHeadIndex(): the largest headIndex word of any thread.
getMaxLocalHeadIndex == Max({nt[t].headIndex : t \in Threads})

\* A std::set ordered by nodeCmp, as a sequence: ascending index, and of two
\* nodes with one index only the one inserted first (the lower address).
RECURSIVE SortByIndex(_, _)
SortByIndex(m, S) ==
  IF S = {} THEN << >>
  ELSE LET lo == CHOOSE n \in S :
                   \A o \in S : m[n].index < m[o].index
                                \/ (m[n].index = m[o].index /\ n <= o)
       IN <<lo>> \o SortByIndex(m, {o \in S : m[o].index # m[lo].index})

\* Faulty variant of getQueueNodesAndRetireOthers: the bound is off by one.
getQueueNodesFromHeadIndex(m, headIndex) ==
  SortByIndex(m, {n \in ChunkScan : m[n].flag /\ m[n].index >= headIndex})

\* getQueueNodesAndRetireOthers: the nodes marked linked beyond headIndex.
getQueueNodesAndRetireOthers(m, headIndex) ==
  SortByIndex(m, {n \in ChunkScan : m[n].flag /\ m[n].index > headIndex})

\* Faulty variant of recoverHead: the new sentinel keeps the index it had.
recoverHeadNoIndex(m, hd, headIndex) ==
  [m EXCEPT ![hd] = Store(m[hd], [m[hd] EXCEPT !.pred = STALE])]

\* recoverHead: a new sentinel that carries headIndex.
recoverHead(m, hd, headIndex) ==
  [m EXCEPT ![hd] = Store(m[hd], [m[hd] EXCEPT !.index = headIndex,
                                               !.pred = STALE])]

\* recoverLinksAndTail / recoverVolatileQueue of the Unlinked engines: the
\* nodes are chained behind the sentinel in the order of the set.
RECURSIVE recoverLinks(_, _, _)
recoverLinks(m, predNode, q) ==
  IF q = << >> THEN [m EXCEPT ![predNode].next = NULL]
  ELSE recoverLinks([m EXCEPT ![predNode].next = Head(q)], Head(q), Tail(q))

\* LinkedQ::getQueueNodesIncludingDummy: the walk from durable Head; sever is
\* the node whose next is cut because its successor is not initialized.
RECURSIVE WalkFromHead(_, _, _)
WalkFromHead(m, currNode, acc) ==
  LET nextNode == m[currNode].next IN
    IF nextNode = NULL
    THEN [nodes |-> acc \cup {currNode}, sever |-> NULL, init |-> FALSE]
    ELSE IF ~m[nextNode].flag
         THEN [nodes |-> acc \cup {currNode}, sever |-> currNode, init |-> FALSE]
         ELSE WalkFromHead(m, nextNode, acc \cup {currNode})

\* Faulty variant of getQueueNodesIncludingDummy: initialized is read of the
\* node Head points to only.
getQueueNodesToNull(m, h) ==
  IF ~m[h].flag
  THEN [nodes |-> {h}, sever |-> NULL, init |-> TRUE]
  ELSE [nodes |-> {Chain(m, h)[i] : i \in 1 .. Len(Chain(m, h))},
        sever |-> NULL, init |-> FALSE]

getQueueNodesIncludingDummy(m, h) ==
  IF ~m[h].flag
  THEN [nodes |-> {h}, sever |-> NULL, init |-> TRUE]
  ELSE WalkFromHead(m, h, {})

\* LinkedQ::retireNonQueueNodes: the nodes it un-initializes and flushes.
retireNonQueueNodes(m, queueNodes) ==
  {n \in ChunkScan : n \notin queueNodes /\ m[n].flag}

\* LinkedQ::recover.  The second scan is skipped when the walk cut a link
\* (the || of the code does not evaluate its right operand then).
RecoverLinkedQ ==
  LET g        == getQueueNodesIncludingDummy(mem, QHead.ptr)
      h        == QHead.ptr
      m1       == IF g.init
                  THEN [mem EXCEPT ![h] = Store(mem[h],
                          [mem[h] EXCEPT !.item = 0, !.next = NULL, !.flag = TRUE])]
                  ELSE IF g.sever # NULL
                       THEN [mem EXCEPT ![g.sever] =
                               Store(mem[g.sever], [mem[g.sever] EXCEPT !.next = NULL])]
                       ELSE mem
      retired  == IF g.sever # NULL THEN {} ELSE retireNonQueueNodes(m1, g.nodes)
      m2       == [n \in Nodes |->
                     IF n \in retired
                     THEN Store(m1[n], [m1[n] EXCEPT !.flag = FALSE]) ELSE m1[n]]
      flushed  == IF g.sever # NULL THEN {g.sever} ELSE retired
      lastNode == Max(g.nodes)
  IN /\ mem' = [m2 EXCEPT ![lastNode].pred = NULL]
     /\ QTail' = lastNode
     /\ pm' = [n \in Nodes |->
                 IF n \in flushed THEN {Image(mem'[n])}
                 ELSE pm[n] \cup {Image(mem'[n])}]
     /\ freed' = IF g.sever # NULL THEN freed
                 ELSE freed \cup (ChunkScan \ g.nodes)
     /\ localData' = [t \in Threads |-> [localData[t] EXCEPT !.nodeToRetire = NULL]]
     /\ UNCHANGED <<QHead, QHeadPm, nt, nalloc>>


\* UnlinkedQ::recover and OptUnlinkedQ::recover.
RecoverUnlinked ==
  LET headIndex == IF IsOpt THEN getMaxLocalHeadIndex ELSE QHead.index
      queueNodes == getQueueNodesAndRetireOthers(mem, headIndex)
      hd == RecoverySlot
      m1 == recoverHead(mem, hd, headIndex)
  IN /\ mem' = recoverLinks(m1, hd, queueNodes)
     /\ QHead' = [ptr |-> hd,
                  index |-> IF IsOpt THEN 0 ELSE headIndex,
                  ver |-> QHead.ver + 1]
     /\ QTail' = IF queueNodes = << >> THEN hd
                 ELSE queueNodes[Len(queueNodes)]
     /\ Durable(pm, QHeadPm)
     /\ freed' = freed \cup {n \in ChunkScan :
                               /\ n # hd
                               /\ \A i \in 1 .. Len(queueNodes) : queueNodes[i] # n}
     /\ nalloc' = [nalloc EXCEPT ![1] = @ + 1]
     /\ localData' = [t \in Threads |-> [localData[t] EXCEPT !.nodeToRetire = NULL]]
     /\ UNCHANGED nt

\* The last-enqueue cells of a thread, in the order the recovery reads them.
Cells(d) == <<d.c0, d.c1>>

\* getPotentialTails: the cells whose two validity bits agree, that point to
\* a node and lie beyond headIndex; a std::set ordered by index, descending
\* here (the order in which getQueueNodes tries them).
RECURSIVE SortCellsDesc(_)
SortCellsDesc(S) ==
  IF S = {} THEN << >>
  ELSE LET hi == CHOOSE c \in S :
                   \A o \in S : c.index > o.index
                                \/ (c.index = o.index /\ c.ord <= o.ord)
       IN <<hi>> \o SortCellsDesc({o \in S : o.index # hi.index})

\* Faulty variant of getPotentialTails: the validity bits are not compared.
getPotentialTailsAnyBits(d, headIndex) ==
  SortCellsDesc({[ptr |-> Cells(d[t])[j].ptr, index |-> Cells(d[t])[j].index,
                  ord |-> 2 * t + j] :
                   <<t, j>> \in {x \in Threads \X {1, 2} :
                                   LET c == Cells(d[x[1]])[x[2]] IN
                                     /\ c.index > headIndex
                                     /\ c.ptr # NULL}})

getPotentialTails(d, headIndex) ==
  SortCellsDesc({[ptr |-> Cells(d[t])[j].ptr, index |-> Cells(d[t])[j].index,
                  ord |-> 2 * t + j] :
                   <<t, j>> \in {x \in Threads \X {1, 2} :
                                   LET c == Cells(d[x[1]])[x[2]] IN
                                     /\ c.ibit = c.pbit
                                     /\ c.index > headIndex
                                     /\ c.ptr # NULL}})

\* getQueueNodesIfTail: the walk over the persistent pred pointers, each
\* index one below its successor's, down to headIndex + 1; {} if it breaks.
\* (The code dereferences pred unchecked: a null pred is a fault.)
RECURSIVE PredWalk(_, _, _, _)
PredWalk(m, currNode, headIndex, acc) ==
  IF m[currNode].index = headIndex + 1 THEN acc \cup {currNode}
  ELSE LET predNode == m[currNode].ppred IN
         IF predNode = NULL THEN {NULL}
         ELSE IF m[predNode].index # m[currNode].index - 1 THEN {}
              ELSE PredWalk(m, predNode, headIndex, acc \cup {currNode})

\* Faulty variant of getQueueNodesIfTail: the pred pointers are not walked.
OnlyTail(m, potentialTail, headIndex) ==
  IF m[potentialTail.ptr].index # potentialTail.index THEN {}
  ELSE {potentialTail.ptr}

getQueueNodesIfTail(m, potentialTail, headIndex) ==
  IF m[potentialTail.ptr].index # potentialTail.index THEN {}
  ELSE PredWalk(m, potentialTail.ptr, headIndex, {})

\* Faulty variant of getQueueNodes: only the largest potential tail is tried.
getQueueNodesOfLargest(m, potentialTails, headIndex) ==
  IF potentialTails = << >> THEN {}
  ELSE getQueueNodesIfTail(m, Head(potentialTails), headIndex)

\* getQueueNodes: the first potential tail, from the largest index down,
\* whose walk succeeds.
RECURSIVE getQueueNodes(_, _, _)
getQueueNodes(m, potentialTails, headIndex) ==
  IF potentialTails = << >> THEN {}
  ELSE LET q == getQueueNodesIfTail(m, Head(potentialTails), headIndex) IN
         IF q # {} THEN q
         ELSE getQueueNodes(m, Tail(potentialTails), headIndex)

\* The potential tails getQueueNodes gave up before one passed (ghost).
RECURSIVE FailedTails(_, _, _)
FailedTails(m, potentialTails, headIndex) ==
  IF potentialTails = << >> THEN 0
  ELSE IF getQueueNodesIfTail(m, Head(potentialTails), headIndex) # {} THEN 0
       ELSE 1 + FailedTails(m, Tail(potentialTails), headIndex)

\* OptLinkedQ::retireNonQueueNodes: the nodes whose index it zeroes and flushes.
retireByIndex(m, queueNodes, headIndex) ==
  {n \in ChunkScan : n \notin queueNodes /\ m[n].index > headIndex}

\* OptLinkedQ::recoverVolatileQueue: the volatile list is built over the
\* std::set<PersistentNode*>, that is in ascending address order.
RECURSIVE AddressOrder(_)
AddressOrder(S) ==
  IF S = {} THEN << >>
  ELSE LET lo == CHOOSE n \in S : \A o \in S : n <= o
       IN <<lo>> \o AddressOrder(S \ {lo})

\* isValidTail: the cell names the recovered tail.
isValidTail(c, tailNode, tailIndex, headIndex) ==
  /\ c.index = tailIndex
  /\ c.ptr = tailNode
  /\ c.index > headIndex
  /\ c.ibit = c.pbit

\* Faulty variant of recoverLastEnqueues: the cell that does not name the
\* tail is left as it is.
recoverLastEnqueuesNoReset(d, tailNode, tailIndex, headIndex) ==
  IF ~isValidTail(d.c0, tailNode, tailIndex, headIndex)
     /\ ~isValidTail(d.c1, tailNode, tailIndex, headIndex)
  THEN [d |-> [d EXCEPT !.c0 = ZeroCell, !.c1 = ZeroCell],
        validBit |-> 1, lastEnqueuesIndex |-> 0]
  ELSE IF isValidTail(d.c0, tailNode, tailIndex, headIndex)
       THEN [d |-> d, validBit |-> d.c0.ibit, lastEnqueuesIndex |-> 1]
       ELSE [d |-> d, validBit |-> 1 - d.c1.ibit, lastEnqueuesIndex |-> 0]

\* recoverLastEnqueues for one thread: its durable cells and its volatile
\* validBit / lastEnqueuesIndex.
recoverLastEnqueues(d, tailNode, tailIndex, headIndex) ==
  IF ~isValidTail(d.c0, tailNode, tailIndex, headIndex)
     /\ ~isValidTail(d.c1, tailNode, tailIndex, headIndex)
  THEN [d |-> [d EXCEPT !.c0 = ZeroCell, !.c1 = ZeroCell],
        validBit |-> 1, lastEnqueuesIndex |-> 0]
  ELSE IF isValidTail(d.c0, tailNode, tailIndex, headIndex)
       THEN [d |-> [d EXCEPT !.c1 = ZeroCell],
             validBit |-> d.c0.ibit, lastEnqueuesIndex |-> 1]
       ELSE [d |-> [d EXCEPT !.c0 = ZeroCell],
             validBit |-> 1 - d.c1.ibit, lastEnqueuesIndex |-> 0]

\* OptLinkedQ::recover.
RecoverOptLinkedQ ==
  LET headIndex  == getMaxLocalHeadIndex
      queueNodes == getQueueNodes(mem, getPotentialTails(nt, headIndex), headIndex)
      retired    == retireByIndex(mem, queueNodes, headIndex)
      m1 == [n \in Nodes |->
               IF n \in retired
               THEN Store(mem[n], [mem[n] EXCEPT !.index = 0]) ELSE mem[n]]
      hd == RecoverySlot
      m2 == recoverHead(m1, hd, headIndex)
      order == AddressOrder(queueNodes)
      m3 == recoverLinks(m2, hd, order)
      volatileTail == IF order = << >> THEN hd ELSE order[Len(order)]
      le == [t \in Threads |->
               recoverLastEnqueues(nt[t], volatileTail, m3[volatileTail].index,
                                   headIndex)]
  IN /\ NULL \notin queueNodes
     /\ mem' = [m3 EXCEPT ![volatileTail].pred = NULL]
     /\ QHead' = [ptr |-> hd, index |-> 0, ver |-> QHead.ver + 1]
     /\ QTail' = volatileTail
     /\ pm' = [n \in Nodes |->
                 IF n \in retired THEN {Image(mem'[n])}
                 ELSE pm[n] \cup {Image(mem'[n])}]
     /\ QHeadPm' = QHeadPm
     /\ nt' = [t \in Threads |-> le[t].d]
     /\ localData' = [t \in Threads |->
                        [nodeToRetire |-> NULL, validBit |-> le[t].validBit,
                         lastEnqueuesIndex |-> le[t].lastEnqueuesIndex]]
     /\ freed' = freed \cup ((ChunkScan \ queueNodes) \ {hd})
     /\ nalloc' = [nalloc EXCEPT ![1] = @ + 1]

\* The recovered queue, from the new Head: the sentinel and the list behind it.
Recovered(m, h) ==
  [nodes |-> [i \in 1 .. (Len(Chain(m, h)) - 1) |->
                LET n == Chain(m, h)[i + 1] IN
                  [n |-> n, item |-> m[n].item, index |-> m[n].index]],
   sentinel |-> h, sentIndex |-> m[h].index,
   watermark |-> rec.watermark, allocAt |-> nalloc', opsAt |-> nOps,
   sever |-> IF engine = "LinkedQ"
             THEN getQueueNodesIncludingDummy(mem, QHead.ptr).sever ELSE NULL,
   reinit |-> IF engine = "LinkedQ"
              THEN getQueueNodesIncludingDummy(mem, QHead.ptr).init ELSE FALSE,
   failed |-> IF engine = "OptLinkedQ"
              THEN FailedTails(mem, getPotentialTails(nt, getMaxLocalHeadIndex),
                               getMaxLocalHeadIndex)
              ELSE 0]

\* recover(), run by one thread before any other thread starts.
Recover ==
  /\ phase = "crashed"
  /\ phase' = "recovered"
  /\ CASE engine = "LinkedQ" -> RecoverLinkedQ
       [] engine = "OptLinkedQ" -> RecoverOptLinkedQ
       [] OTHER -> RecoverUnlinked
  /\ rec' = Recovered(mem', QHead'.ptr)
  /\ UNCHANGED <<engine, ssmem, wc, pend, pc, lv, nOps, linkSeq, nRemoved, enqDone, tr>>

Next ==
  \/ \E t \in Threads : ThreadStep(t)
  \/ Crash
  \/ Recover

Spec == Init /\ [][Next]_vars



\* A crash-free execution in which every thread is scheduled fairly.
NextRun == \E t \in Threads : ThreadStep(t)

FairSpec ==
  Init /\ [][NextRun]_vars /\ \A t \in Threads : WF_vars(ThreadStep(t))

\* A crash-free execution in which freed slots are allocated again.
ReuseSpec == ReuseInit /\ [][NextRun]_vars


-----------------------------------------------------------------------------
(* Properties.                                                             *)

\* The calls that returned, as <<thread, position in tr[thread]>>.
AllEntries == UNION {{<<t, i>> : i \in DOMAIN tr[t]} : t \in Threads}
Entry(x) == tr[x[1]][x[2]]

\* The deq calls that returned true in the given phase.
DeqTrue(ph) ==
  {x \in AllEntries : Entry(x).op = "deq" /\ Entry(x).ok /\ Entry(x).ph = ph}

\* The thread whose allocator owns a slot.
Producer(n) == ((n - 1) \div ChunkSlots) + 1

RecNodes == {rec.nodes[i].n : i \in DOMAIN rec.nodes}
Linked == {linkSeq[i].n : i \in DOMAIN linkSeq}

\* C1: in a crash-free execution every deq answers as the sequential FIFO
\* queue does at its linearization point: a deq that returns true took, at
\* its Head CAS, the item then first in the queue of the items linked and not
\* yet removed; a deq that returns false saw, at its load of a null
\* head.next, that queue empty; and the items of one producer are linked,
\* hence dequeued, in the order that producer enqueued them.
C1_Linearizable ==
  /\ \A x \in AllEntries :
       LET e == Entry(x) IN
         (e.ph = "run" /\ e.op = "deq")
           => (e.ok = e.absOk /\ (e.ok => e.item = e.absItem))
  /\ \A t \in Threads :
       (phase = "run" /\ pc[t] = "d_fence")
         => (lv[t].absOk /\ lv[t].item = lv[t].absItem)
  /\ \A i, j \in DOMAIN linkSeq :
       (i < j /\ Producer(linkSeq[i].n) = Producer(linkSeq[j].n))
         => linkSeq[i].item < linkSeq[j].item

\* Two threads raced: one deq returned true, another returned false, and the
\* other thread enqueued.
C1_Witness ==
  /\ phase = "run"
  /\ \E x \in DeqTrue("run") : \E y \in AllEntries :
       /\ y[1] # x[1]
       /\ Entry(y).op = "enq"
  /\ \E z \in AllEntries : Entry(z).op = "deq" /\ ~Entry(z).ok

\* Thread 1 ran alone on the fresh queue, k enq calls and then deq calls.
SoloRun(k) ==
  /\ phase = "run"
  /\ tr[2] = << >> /\ pc[2] = "idle" /\ nalloc[2] = 0
  /\ k <= Len(tr[1])
  /\ \A i \in 1 .. Len(tr[1]) : tr[1][i].op = (IF i <= k THEN "enq" ELSE "deq")

\* C2: after k enq calls of a single thread on a fresh queue, the i-th deq
\* (i <= k) returns true with the i-th enqueued item, every later deq
\* returns false, and no call retries its loop.
C2_SequentialFifo ==
  \A k \in 0 .. MaxOps :
    SoloRun(k) =>
      /\ \A j \in 1 .. (Len(tr[1]) - k) :
           LET d == tr[1][k + j] IN
             IF j <= k THEN d.ok /\ d.item = tr[1][j].item ELSE ~d.ok
      /\ pc[1] \notin {"e_help", "e_load", "d_load"}

\* enq, deq (true), deq (false) by one thread.
C2_Witness ==
  /\ SoloRun(1)
  /\ Len(tr[1]) = 3
  /\ tr[1][2].ok /\ tr[1][2].item = tr[1][1].item
  /\ ~tr[1][3].ok

\* The nodes whose enq returned before the crash and that no Head CAS removed.
Survivors == {n \in enqDone : PosOf(n) > nRemoved}

\* C3: after a crash and recover(), every element whose enq returned before
\* the crash and whose node no Head CAS removed is in the recovered queue,
\* with its item.
C3_ReturnedEnqRecovered ==
  phase = "recovered" =>
    \A n \in Survivors :
      \E i \in DOMAIN rec.nodes :
        rec.nodes[i].n = n /\ rec.nodes[i].item = linkSeq[PosOf(n)].item

\* An enq returned, another node was linked by a call that had not returned,
\* and the crash kept the first.
C3_Witness ==
  /\ phase = "recovered"
  /\ Survivors # {}
  /\ Len(linkSeq) > Cardinality(enqDone)

\* The position in link order behind which the recovered queue starts.
SentinelPos == IF engine = "LinkedQ" THEN PosOf(rec.sentinel) ELSE rec.sentIndex

\* C4: LinkedQ and OptLinkedQ recover a set of nodes without a gap in link
\* order: with a recovered node, every node linked before it and behind the
\* recovered sentinel is recovered.
C4_LinkedNoGap ==
  (phase = "recovered" /\ IsLinked) =>
    \A n \in RecNodes :
      \A j \in DOMAIN linkSeq :
        (SentinelPos < j /\ j < PosOf(n)) => linkSeq[j].n \in RecNodes

\* Two nodes were linked and both are recovered.
C4_Witness ==
  /\ phase = "recovered" /\ IsLinked
  /\ Len(rec.nodes) >= 2
  /\ RecNodes \subseteq Linked

\* C5: UnlinkedQ and OptUnlinkedQ recover a gap-free prefix: with the node of
\* index k recovered, every node of index j, watermark < j < k, linked before
\* the crash is recovered.
C5_UnlinkedNoGap ==
  (phase = "recovered" /\ IsUnlinked) =>
    \A i \in DOMAIN rec.nodes :
      \A j \in DOMAIN linkSeq :
        (rec.watermark < j /\ j < rec.nodes[i].index)
          => linkSeq[j].n \in RecNodes


\* The gap of C5 with the later enq complete: node k's enq returned before
\* the crash and k is recovered, an earlier linked node behind the watermark
\* is not.
C5_GapBehindReturnedEnq ==
  /\ phase = "recovered" /\ IsUnlinked
  /\ \E i \in DOMAIN rec.nodes : \E j \in DOMAIN linkSeq :
       /\ rec.nodes[i].n \in enqDone
       /\ rec.watermark < j /\ j < rec.nodes[i].index
       /\ linkSeq[j].n \notin RecNodes

\* C6: no element is returned by two deq calls that return true, before or
\* after the crash, and what recover() leaves in the queue to be dequeued
\* holds no element a deq returned before the crash, and no element twice.
C6_NoDoubleDequeue ==
  /\ \A x, y \in DeqTrue("run") \cup DeqTrue("recovered") :
       x # y => Entry(x).item # Entry(y).item
  /\ phase = "recovered" =>
       /\ \A i \in DOMAIN rec.nodes : \A x \in DeqTrue("run") :
            rec.nodes[i].item # Entry(x).item
       /\ \A i, j \in DOMAIN rec.nodes :
            i # j => rec.nodes[i].item # rec.nodes[j].item

\* A deq returned true before the crash and a deq returned after recover().
C6_Witness ==
  /\ phase = "recovered"
  /\ DeqTrue("run") # {}
  /\ \E y \in AllEntries : Entry(y).op = "deq" /\ Entry(y).ph = "recovered"

\* The durable head covers the node a deq of thread t took: in LinkedQ
\* every value durable Head may hold points to the node or behind it, in
\* UnlinkedQ it carries an index >= the node's; in the Opt engines the
\* thread's headIndex word in memory is >= the node's index and no store to
\* it is still buffered.
HeadCovers(t, hn, k, headPm, ntw, wcs, m) ==
  CASE engine = "LinkedQ" ->
         \A h \in headPm : \E i \in DOMAIN Chain(m, hn) : Chain(m, hn)[i] = h.ptr
    [] engine = "UnlinkedQ" -> \A h \in headPm : h.index >= k
    [] OTHER -> ntw[t].headIndex >= k /\ wcs[t] = << >>

\* C7: when a deq returns true for a node, the removal is durable.
C7_DeqDurableAtReturn ==
  [][\A t \in Threads :
       (pc[t] = "d_fence" /\ pc'[t] = "idle" /\ phase' = phase)
         => HeadCovers(t, lv[t].hnext, lv[t].pos, QHeadPm', nt', wc', mem')]_vars

\* A deq returned true while the other thread was inside a deq that had
\* loaded the same head.
C7_Witness ==
  /\ phase = "run"
  /\ \E x \in DeqTrue("run") : \E u \in Threads :
       u # x[1] /\ pc[u] \in {"d_cas", "d_load"}

\* C8: recover() fabricates nothing and does not move the head: every node
\* of the recovered queue was linked before the crash and carries the item
\* of its enq, lies behind the watermark, and the recovered sentinel is at
\* the watermark the crash left (Head.index in UnlinkedQ, the largest
\* headIndex in the Opt engines, the node of durable Head in LinkedQ).
C8_RecoverNoFabrication ==
  phase = "recovered" =>
    /\ \A i \in DOMAIN rec.nodes :
         /\ \E j \in DOMAIN linkSeq :
              linkSeq[j].n = rec.nodes[i].n /\ linkSeq[j].item = rec.nodes[i].item
         /\ engine # "LinkedQ" => rec.nodes[i].index > rec.watermark
    /\ IF engine = "LinkedQ" THEN rec.sentinel = rec.watermark
       ELSE rec.sentIndex = rec.watermark

\* The crash dropped a linked node and kept another.
C8_Witness ==
  /\ phase = "recovered"
  /\ rec.nodes # << >>
  /\ Len(linkSeq) > Len(rec.nodes)

\* A step of thread t on the empty path of deq: the load of a null
\* head->next, or the fence and return that follow it.
EmptyPathStep(t) ==
  /\ phase' = phase
  /\ \/ pc[t] = "d_next" /\ pc'[t] = "d_efence"
     \/ pc[t] = "d_efence" /\ pc'[t] = "idle"

\* Every linked element was removed by a deq that returned true.
EmptyAtCrash == Len(linkSeq) = Cardinality(DeqTrue("run"))

\* C9: a deq that finds head->next null returns false and leaves Head, Tail
\* and the list as they are; and if the queue is empty at the crash, a deq
\* that is the first call after recover() returns false.
C9_EmptyDeq ==
  /\ [][\A t \in Threads :
          EmptyPathStep(t) =>
            /\ QHead'.ptr = QHead.ptr /\ QHead'.index = QHead.index
            /\ QTail' = QTail
            /\ \A n \in Nodes : mem'[n].next = mem[n].next
            /\ pc'[t] = "idle" => ~tr'[t][Len(tr'[t])].ok]_vars
  /\ [](\A x \in AllEntries :
          (/\ Entry(x).ph = "recovered" /\ Entry(x).op = "deq"
           /\ Entry(x).call = rec.opsAt + 1 /\ EmptyAtCrash)
            => ~Entry(x).ok)

\* An element was enqueued and dequeued, then the crash, recover() and a deq.
C9_Witness ==
  /\ phase = "recovered"
  /\ EmptyAtCrash /\ Len(linkSeq) >= 1
  /\ \E x \in AllEntries :
       /\ Entry(x).ph = "recovered" /\ Entry(x).op = "deq"
       /\ Entry(x).call = rec.opsAt + 1

\* An iteration of the retry loop of thread t ends without completing.
FailStep(t) ==
  \/ pc[t] = "e_help" /\ pc'[t] = "e_load"
  \/ pc[t] = "d_cas" /\ pc'[t] = "d_load"

\* C10 as stated: an iteration fails only if another thread's CAS succeeded
\* after the iteration's first load.
C10_FailOnlyByOthersCAS ==
  [][\A t \in Threads : FailStep(t) => lv[t].casSince]_vars

\* C10: an iteration fails only if another thread's CAS succeeded after its
\* first load, or it found a node already linked behind Tail and its own
\* CAS advanced Tail; and under fair scheduling every pending call returns.
C10_LockFree ==
  /\ [][\A t \in Threads :
          FailStep(t) => (lv[t].casSince \/ QTail' # QTail)]_vars
  /\ \A t \in Threads : (pc[t] # "idle") ~> (pc[t] = "idle")

\* A thread is about to retry after another thread's CAS, and a call returned.
C10_Witness ==
  /\ \E t \in Threads : pc[t] \in {"e_load", "d_load"} /\ lv[t].casSince
  /\ AllEntries # {}


-----------------------------------------------------------------------------
(* Reclamation.                                                            *)

\* Thread t returns true from deq and frees the node it had stashed.
FreeStep(t) ==
  /\ pc[t] = "d_fence" /\ pc'[t] = "idle" /\ phase' = phase
  /\ localData[t].nodeToRetire # NULL

\* C11: a node is freed at most once, by the thread whose Head CAS replaced
\* it as sentinel, when that thread returns true from deq again; a thread
\* holds one pending node.
C11_FreedAtMostOnce ==
  [][\A t \in Threads :
       FreeStep(t) =>
         /\ localData[t].nodeToRetire \notin freed
         /\ mem[localData[t].nodeToRetire].by = t
         /\ localData'[t].nodeToRetire = lv[t].head]_vars

\* A CAS of thread t on Head, or on the next field of the node it loaded as
\* tail, succeeds.
CasSuccessStep(t) ==
  \/ pc[t] = "d_cas" /\ pc'[t] = "d_fence"
  \/ pc[t] = "e_cas" /\ pc'[t] = AfterLink

\* C12: no CAS on Head or on a next field succeeds when the node the thread
\* loaded as head or tail was freed between the load and the CAS.
C12_NoCasOnFreedNode ==
  [][\A t \in Threads : CasSuccessStep(t) => ~lv[t].freedSince]_vars


-----------------------------------------------------------------------------
(* OptLinkedQ: the validity bits of the last-enqueue cells.                *)

\* What the durable words of thread t may hold if the caches were lost now:
\* the words in memory and any of its buffered non-temporal stores.
CellImages(t) ==
  {ApplyAllNt(nt[t], SelectNt(wc[t], S)) : S \in SUBSET (1 .. Len(wc[t]))}

\* Both words of the cell were stored by one write sequence.
WrittenTogether(c) == c.pseq = c.iseq

\* C13 (as stated): in every reachable state, also after recover(), the two
\* validity bits of a last-enqueue cell agree exactly when both words of the
\* cell were stored by the same write sequence; a cell of which one word was
\* stored by a recordLastEnqueue and the other was not has differing bits.
C13_BitsAgreeIffWrittenTogether ==
  engine = "OptLinkedQ" =>
    \A t \in Threads : \A d \in CellImages(t) : \A j \in {1, 2} :
      (Cells(d)[j].pbit = Cells(d)[j].ibit) <=> WrittenTogether(Cells(d)[j])

\* C13 (amended): the bits of a cell whose words were stored together agree;
\* a cell of which only one word was stored by a recordLastEnqueue has
\* differing bits, or is a cell that recover() had reset and still holds a
\* zero index or a null pointer.
C13_BitsAgreeOrCellReset ==
  engine = "OptLinkedQ" =>
    \A t \in Threads : \A d \in CellImages(t) : \A j \in {1, 2} :
      LET c == Cells(d)[j] IN
        /\ WrittenTogether(c) => c.pbit = c.ibit
        /\ ~WrittenTogether(c) => \/ c.pbit # c.ibit
                                  \/ c.index = 0
                                  \/ c.ptr = NULL

\* After recover(), a thread has buffered the two stores of a
\* recordLastEnqueue into a cell that recover() had reset.
C13_Witness ==
  /\ engine = "OptLinkedQ" /\ phase = "recovered"
  /\ \E t \in Threads :
       /\ pc[t] = "e_fence" /\ Len(wc[t]) = 2
       /\ \E d \in CellImages(t) : \E j \in {1, 2} :
            ~WrittenTogether(Cells(d)[j]) /\ Cells(d)[j].pbit = Cells(d)[j].ibit

\* The cells of image d that getPotentialTails accepts.
Accepted(t, d, j) ==
  LET all == [nt EXCEPT ![t] = d]
      headIndex == Max({all[u].headIndex : u \in Threads})
      tails == getPotentialTails(all, headIndex)
  IN \E k \in 1 .. Len(tails) : tails[k].ord = 2 * t + j

\* C14: a cell of which exactly one of the two stores of recordLastEnqueue
\* reached memory is not a potential tail, before and after a recovery; the
\* thread's other cell, if its bits agree and its index is above the durable
\* headIndex, is one.
C14_TornCellNotCandidate ==
  engine = "OptLinkedQ" =>
    \A t \in Threads : \A d \in CellImages(t) : \A j \in {1, 2} :
      ~WrittenTogether(Cells(d)[j]) =>
        /\ ~Accepted(t, d, j)
        /\ LET o == Cells(d)[3 - j] IN
             (o.pbit = o.ibit /\ o.index > Max({([nt EXCEPT ![t] = d])[u].headIndex :
                                                  u \in Threads}))
               => Accepted(t, d, 3 - j)

\* After recover(), one store of a recordLastEnqueue would reach memory alone
\* while the thread's other cell is a potential tail.
C14_Witness ==
  /\ engine = "OptLinkedQ" /\ phase = "recovered"
  /\ \E t \in Threads : \E d \in CellImages(t) : \E j \in {1, 2} :
       /\ ~WrittenTogether(Cells(d)[j])
       /\ Accepted(t, d, 3 - j)


-----------------------------------------------------------------------------
(* LinkedQ: what recover() keeps, retires and takes as Tail.               *)

\* The longest chain from node n over next in which every node after n is
\* initialized.
RECURSIVE InitializedChain(_, _)
InitializedChain(m, n) ==
  <<n>> \o (IF m[n].next # NULL /\ m[m[n].next].flag
            THEN InitializedChain(m, m[n].next) ELSE << >>)

\* The chain of the crash image: from durable Head, or that node alone when
\* it is not initialized.
DurableChain ==
  IF ~mem[QHead.ptr].flag THEN <<QHead.ptr>> ELSE InitializedChain(mem, QHead.ptr)

\* recover() of LinkedQ runs in this step.
LinkedRecoverStep == engine = "LinkedQ" /\ phase = "crashed" /\ phase' = "recovered"

\* Only thread 1 called, n times enq, and the crash came after the link CAS
\* of the n-th and before its return.
CrashInLastEnq(n) ==
  /\ nOps = n /\ Len(linkSeq) = n /\ nRemoved = 0
  /\ Len(tr[1]) = n - 1 /\ tr[2] = << >>

\* C15: LinkedQ recover() keeps exactly the longest chain from durable Head
\* over next whose nodes are initialized; where the successor of its last
\* node is not initialized it stores null into next and flushes the node; a
\* durable Head node that is not initialized is re-initialised and is the
\* whole (empty) queue; n sequential enqueues with a crash inside the n-th,
\* after its link CAS, are recovered as n-1 or n items.
C15_LinkedRecoverKeepsChain ==
  [][LinkedRecoverStep =>
       LET ch   == DurableChain
           h    == QHead.ptr
           last == ch[Len(ch)]
       IN /\ QHead'.ptr = h
          /\ Chain(mem', h) = ch
          /\ (mem[h].flag /\ mem[last].next # NULL)
               => mem'[last].next = NULL /\ pm'[last] = {Image(mem'[last])}
          /\ ~mem[h].flag
               => mem'[h].flag /\ mem'[h].next = NULL /\ mem'[h].item = 0
          /\ \A n \in 1 .. MaxOps :
               CrashInLastEnq(n) =>
                 /\ Len(rec'.nodes) \in {n - 1, n}
                 /\ \A i \in DOMAIN rec'.nodes :
                      rec'.nodes[i].n = linkSeq[i].n
                      /\ rec'.nodes[i].item = linkSeq[i].item]_vars

\* recover() cut the link behind a recovered element.
C15_Witness ==
  /\ engine = "LinkedQ" /\ phase = "recovered"
  /\ rec.sever # NULL /\ Len(rec.nodes) >= 1

\* The nodes of the queue right after recover().
LiveSet == {Chain(mem, QHead.ptr)[i] : i \in 1 .. Len(Chain(mem, QHead.ptr))}

\* recover() returned and no call was made since.
JustRecovered == phase = "recovered" /\ nOps = rec.opsAt

\* C16: after LinkedQ recover(), also when the walk cut a next pointer, every
\* slot of the chunks outside the live set is not initialized, durably so,
\* and was freed.
C16_NonLiveRetired ==
  (engine = "LinkedQ" /\ JustRecovered) =>
    \A n \in ChunkScan \ LiveSet :
      /\ ~mem[n].flag
      /\ \A img \in pm[n] : ~img.flag
      /\ n \in freed

\* C17: after LinkedQ recover() Tail is the last live node, the one reached
\* from Head whose next is null, and its pred is null, wherever the live
\* nodes lie in memory.
C17_TailIsLastLive ==
  (engine = "LinkedQ" /\ JustRecovered) =>
    /\ QTail = Chain(mem, QHead.ptr)[Len(Chain(mem, QHead.ptr))]
    /\ mem[QTail].next = NULL
    /\ mem[QTail].pred = NULL


-----------------------------------------------------------------------------
(* UnlinkedQ, OptUnlinkedQ: the list recover() builds.                     *)

\* recover() of an Unlinked engine runs in this step.
UnlinkedRecoverStep == IsUnlinked /\ phase = "crashed" /\ phase' = "recovered"

\* The watermark of the crash image: durable Head.index, or the largest
\* headIndex word.
DurableWatermark ==
  IF IsOpt THEN Max({nt[t].headIndex : t \in Threads}) ELSE QHead.index

\* The slots of the crash image marked linked beyond the watermark.
MarkedBeyond == {n \in ChunkScan : mem[n].flag /\ mem[n].index > DurableWatermark}

\* C18: recover() of UnlinkedQ and OptUnlinkedQ builds a list of a fresh
\* sentinel with the watermark as index, followed by exactly the slots with
\* linked == true and index above the watermark, in strictly increasing
\* index order; the last node has a null next and is Tail (the sentinel if
\* there is none); a node linked by CAS whose linked flag is not true in the
\* crash image is absent and its slot freed.
C18_UnlinkedRecoverList ==
  [][UnlinkedRecoverStep =>
       LET ch == Chain(mem', QHead'.ptr) IN
         /\ ch[1] \notin {linkSeq[i].n : i \in DOMAIN linkSeq} \cup {Sentinel0}
         /\ mem'[ch[1]].index = DurableWatermark
         /\ {ch[i] : i \in 2 .. Len(ch)} = MarkedBeyond
         /\ Len(ch) = Cardinality(MarkedBeyond) + 1
         /\ \A i \in 1 .. Len(ch) - 1 : mem'[ch[i]].index < mem'[ch[i + 1]].index
         /\ mem'[ch[Len(ch)]].next = NULL
         /\ QTail' = ch[Len(ch)]
         /\ \A i \in DOMAIN linkSeq :
              ~mem[linkSeq[i].n].flag =>
                /\ \A k \in 1 .. Len(ch) : ch[k] # linkSeq[i].n
                /\ linkSeq[i].n \in freed']_vars

\* A recovered list with an element, while a node linked by CAS beyond the
\* watermark was not marked linked in the crash image and is gone.
C18_Witness ==
  /\ IsUnlinked /\ phase = "recovered" /\ Len(rec.nodes) >= 1
  /\ \E i \in DOMAIN linkSeq :
       /\ linkSeq[i].n \notin RecNodes
       /\ linkSeq[i].n \in freed
       /\ mem[linkSeq[i].n].index > rec.watermark


-----------------------------------------------------------------------------
(* OptLinkedQ: the tail recover() selects and the list it rebuilds.        *)

\* recover() of OptLinkedQ runs in this step.
OptLinkedRecoverStep ==
  engine = "OptLinkedQ" /\ phase = "crashed" /\ phase' = "recovered"

\* H: the largest headIndex word of the crash image.
DurableH == Max({nt[t].headIndex : t \in Threads})

\* The cells of the crash image that may name the tail.
ValidCells ==
  {c \in {Cells(nt[t])[j] : t \in Threads, j \in {1, 2}} :
     c.pbit = c.ibit /\ c.ptr # NULL /\ c.index > DurableH}

\* The node k pred steps (0 <= k) before the node the cell points to.
RECURSIVE PredOf(_, _)
PredOf(c, k) ==
  IF k = 0 THEN c.ptr
  ELSE IF PredOf(c, k - 1) = NULL THEN NULL ELSE mem[PredOf(c, k - 1)].ppred

\* The cell points to a node of its index whose pred chain counts down to H + 1.
PassesWalk(c) ==
  \A k \in 0 .. (c.index - DurableH - 1) :
    PredOf(c, k) # NULL /\ mem[PredOf(c, k)].index = c.index - k

PredChain(c) == {PredOf(c, k) : k \in 0 .. (c.index - DurableH - 1)}

\* C19: OptLinkedQ recover() takes H = the largest headIndex, and of the
\* valid cells (bits agree, pointer not null, index above H) whose node has
\* the cell's index and whose pred chain counts down by one to H + 1 the one
\* with the largest index; the live set is exactly that chain; cells that
\* fail give no node; with no passing cell the queue is empty; the sentinel
\* has index H; the walk ends without a fault.
C19_OptLinkedSelectsTail ==
  /\ [](engine = "OptLinkedQ" /\ phase = "crashed" =>
          NULL \notin getQueueNodes(mem, getPotentialTails(nt, DurableH), DurableH))
  /\ [][OptLinkedRecoverStep =>
          LET ch   == Chain(mem', QHead'.ptr)
              live == {ch[i] : i \in 2 .. Len(ch)}
              pass == {c \in ValidCells : PassesWalk(c)}
          IN /\ mem'[ch[1]].index = DurableH
             /\ pass = {} => live = {}
             /\ \A c \in pass :
                  (\A o \in pass : o.index <= c.index) => live = PredChain(c)]_vars

\* recover() gave up a cell whose node had not reached memory and recovered
\* the chain of a cell with a lower index.
C19_Witness ==
  /\ engine = "OptLinkedQ" /\ phase = "recovered"
  /\ rec.failed >= 1 /\ Len(rec.nodes) >= 1

\* C20: after OptLinkedQ recover(), next from Head visits the recovered nodes
\* with the indices H + 1, H + 2, ... in increasing order and Tail is the
\* node with the largest index, wherever the persistent nodes lie in memory.
C20_ListInIndexOrder ==
  (engine = "OptLinkedQ" /\ JustRecovered) =>
    LET ch == Chain(mem, QHead.ptr) IN
      /\ \A i \in 1 .. Len(ch) : mem[ch[i]].index = mem[ch[1]].index + i - 1
      /\ QTail = ch[Len(ch)]


-----------------------------------------------------------------------------
(* OptLinkedQ: the last-enqueue cells recover() leaves.                    *)

\* The cell holds the values of a reset.
IsZeroCell(c) == c.ptr = NULL /\ c.index = 0 /\ c.pbit = 0 /\ c.ibit = 0

\* The validity bit the next recordLastEnqueue that writes cell j (1 or 2)
\* of thread t will store.
NextBit(t, j) ==
  IF j - 1 = localData[t].lastEnqueuesIndex THEN localData[t].validBit
  ELSE FlipValidBit(localData[t].lastEnqueuesIndex, localData[t].validBit)

\* What recover() leaves of the cells of thread t, the bits aside.
CellsRecovered(t) ==
  LET c == Cells(nt[t]) IN
    /\ IsZeroCell(c[1]) \/ IsZeroCell(c[2])
    /\ \A j \in {1, 2} :
         ~IsZeroCell(c[j]) =>
           /\ c[j].pbit = c[j].ibit
           /\ c[j].ptr = QTail /\ c[j].index = mem[QTail].index
           /\ c[j].index > mem[QHead.ptr].index
    /\ IsZeroCell(c[localData[t].lastEnqueuesIndex + 1])

\* C21 (as stated): after OptLinkedQ recover() at most one cell of a thread is
\* non-zero, a non-zero cell has agreeing bits and names Tail with an index
\* above Head's, lastEnqueuesIndex designates a cleared cell, and the next
\* write to each of the two cells stores a bit different from the one the
\* cell holds.
C21_NextWriteFlipsBothCells ==
  (engine = "OptLinkedQ" /\ JustRecovered) =>
    \A t \in Threads :
      /\ CellsRecovered(t)
      /\ \A j \in {1, 2} : NextBit(t, j) # Cells(nt[t])[j].ibit

\* C21 (amended): the same, the next write storing a different bit into the
\* cell that was kept, and into both cells when both were cleared.
C21_NextWriteFlipsKeptCell ==
  (engine = "OptLinkedQ" /\ JustRecovered) =>
    \A t \in Threads :
      /\ CellsRecovered(t)
      /\ \A j \in {1, 2} :
           (~IsZeroCell(Cells(nt[t])[j])
              \/ (IsZeroCell(Cells(nt[t])[1]) /\ IsZeroCell(Cells(nt[t])[2])))
             => NextBit(t, j) # Cells(nt[t])[j].ibit

\* recover() kept a cell of a thread and cleared the other, and the next
\* write to the cleared cell stores the bit it holds.
C21_Witness ==
  /\ engine = "OptLinkedQ" /\ JustRecovered
  /\ \E t \in Threads : \E j \in {1, 2} :
       /\ ~IsZeroCell(Cells(nt[t])[j])
       /\ IsZeroCell(Cells(nt[t])[3 - j])
       /\ NextBit(t, 3 - j) = Cells(nt[t])[3 - j].ibit
       /\ NextBit(t, j) # Cells(nt[t])[j].ibit


-----------------------------------------------------------------------------
(* The index of the nodes in a crash-free execution.                       *)

\* The engines whose nodes carry an index.
HasIndex == engine \in {"UnlinkedQ", "OptUnlinkedQ", "OptLinkedQ"}

\* C22: in UnlinkedQ, OptUnlinkedQ and OptLinkedQ, in every state of a
\* crash-free execution, the index grows by one per node along next from the
\* sentinel, the sentinel's index is the number of successful dequeues, the
\* k-th linked node has index k and keeps the item it was linked with, and
\* (OptLinkedQ) its persistent pred has index k - 1.
C22_IndexCountsLinks ==
  (HasIndex /\ phase = "run") =>
    LET ch == Chain(mem, QHead.ptr) IN
      /\ mem[ch[1]].index = nRemoved
      /\ \A i \in 1 .. Len(ch) : mem[ch[i]].index = nRemoved + i - 1
      /\ \A k \in DOMAIN linkSeq :
           /\ mem[linkSeq[k].n].index = k
           /\ mem[linkSeq[k].n].item = linkSeq[k].item
           /\ engine = "OptLinkedQ" =>
                /\ mem[linkSeq[k].n].ppred # NULL
                /\ mem[mem[linkSeq[k].n].ppred].index = k - 1

\* After a successful deq the list holds a node behind the new sentinel, and
\* a thread has just linked it.
C22_Witness ==
  /\ HasIndex /\ phase = "run"
  /\ nRemoved >= 1 /\ Len(linkSeq) >= 2
  /\ Len(Chain(mem, QHead.ptr)) >= 2
  /\ \E t \in Threads : pc[t] = AfterLink


-----------------------------------------------------------------------------
(* The fence behind the flushes of a call.                                 *)

\* The call of thread t returns in this step.
ReturnStep(t) == pc[t] # "idle" /\ pc'[t] = "idle" /\ phase' = phase

\* The steps that execute SFENCE(): the last ones of deq and of OptLinkedQ::enq.
IssuesSFENCE(t) == pc[t] \in {"e_fence", "d_fence", "d_efence"}

\* C23 (as stated): in every engine, a call that issued a FLUSH issues an
\* SFENCE after it before it returns.
C23_FlushThenSFENCE ==
  [][\A t \in Threads :
       (ReturnStep(t) /\ lv[t].unfenced) => IssuesSFENCE(t)]_vars

\* C23 (amended): in every engine, when a call returns, each FLUSH it issued
\* was followed by an SFENCE or by a compare_exchange_strong of the same
\* thread: none of its flushes is still pending.
C23_FlushThenFence ==
  [][\A t \in Threads : ReturnStep(t) => pend'[t] = {}]_vars

\* An enq of LinkedQ is about to return: it flushed, executed its Tail CAS
\* and no SFENCE.
C23_Witness ==
  /\ engine = "LinkedQ" /\ phase = "run"
  /\ \E t \in Threads : pc[t] = "e_fin" /\ lv[t].unfenced /\ pend[t] = {}


-----------------------------------------------------------------------------
(* Tail in a crash-free execution.                                         *)

\* The last node reached from n over next.
LastFrom(n) == Chain(mem, n)[Len(Chain(mem, n))]

\* Thread t starts its enq loop over in this step.
EnqRetryStep(t) == pc[t] \notin {"idle", "e_load"} /\ pc'[t] = "e_load"

-----------------------------------------------------------------------------
(* UnlinkedQ, OptUnlinkedQ: the linked flag of a node.                     *)

\* Thread t has initialised its node and its link CAS has not succeeded.
Preparing(t) == pc[t] \in {"e_load", "e_next", "e_cas", "e_help"}

\* What the line of slot n may hold after a crash now, and what it holds in
\* the cache.
LineImages(n) == IF Tracked THEN pm[n] \cup {Image(mem[n])} ELSE {Image(mem[n])}

\* The least watermark a crash now can leave: the headIndex words in memory
\* (buffered stores only raise them), or the least index durable Head holds.
LeastWatermark ==
  IF IsOpt
  THEN Max({nt[t].headIndex : t \in Threads})
  ELSE CHOOSE x \in {h.index : h \in QHeadPm} : \A h \in QHeadPm : x <= h.index

\* C25: in UnlinkedQ and OptUnlinkedQ, in the cache and in every image a
\* crash can leave, also with freed slots allocated again, a node with
\* linked == true and an index above the durable watermark was linked by a
\* successful CAS on tail->next with that index, and the node an enq is
\* preparing (initialised, CAS not yet succeeded) never has linked == true.
C25_LinkedMeansLinkedByCas ==
  (IsUnlinked /\ phase = "run") =>
    /\ \A t \in Threads :
         Preparing(t) => \A img \in LineImages(lv[t].node) : ~img.flag
    /\ Tracked =>
         \A n \in Nodes : \A img \in LineImages(n) :
           (img.flag /\ img.index > LeastWatermark) =>
             /\ \E i \in DOMAIN linkSeq : linkSeq[i].n = n
             /\ img.index = mem[n].index


-----------------------------------------------------------------------------
(* LinkedQ, OptLinkedQ: the back-link pred and the flush walk.             *)

\* The node at position i of the link order (0: the first sentinel).
NodeAt(i) == IF i = 0 THEN Sentinel0 ELSE linkSeq[i].n

\* The least position durable Head, or the headIndex words in memory, can
\* designate after a crash now.
LeastHeadPos ==
  IF engine = "LinkedQ"
  THEN CHOOSE x \in {PosOf(h.ptr) : h \in QHeadPm} :
         \A h \in QHeadPm : x <= PosOf(h.ptr)
  ELSE Max({nt[t].headIndex : t \in Threads})

\* Whatever a crash leaves, recovery finds the i-th linked node behind its
\* predecessor: LinkedQ by next and initialized, OptLinkedQ by pred and index.
DurablyLinked(i) ==
  IF engine = "LinkedQ"
  THEN /\ \A img \in pm[NodeAt(i)] : img.flag /\ img.item = linkSeq[i].item
       /\ \A img \in pm[NodeAt(i - 1)] : img.next = NodeAt(i)
  ELSE \A img \in pm[NodeAt(i)] :
         img.index = i /\ img.ppred = NodeAt(i - 1) /\ img.item = linkSeq[i].item

\* Thread t is in flushNotPersistedSuffix, at a node.
Walking(t) == pc[t] = "e_walk" /\ lv[t].np # NULL

\* C26: in LinkedQ and OptLinkedQ, before any crash, a linked node whose pred
\* is null either is durable together with every node linked before it and
\* behind the durable head, or is at or before the head a crash would leave
\* (it became sentinel and the Head update or headIndex store was fenced);
\* the flush walk stands only on nodes of the list, never on a freed or
\* re-allocated one, and each non-null pred leads to the node linked just
\* before, so the walk ends.
C26_NullPredMeansDurable ==
  (IsLinked /\ phase = "run") =>
    /\ Tracked =>
         /\ \A k \in DOMAIN linkSeq :
              mem[NodeAt(k)].pred = NULL =>
                \/ k <= LeastHeadPos
                \/ \A i \in (LeastHeadPos + 1) .. k : DurablyLinked(i)
         /\ \A k \in DOMAIN linkSeq :
              mem[NodeAt(k)].pred \in {NULL, NodeAt(k - 1)}
         /\ \A t \in Threads :
              Walking(t) => lv[t].np \in {NodeAt(i) : i \in 0 .. Len(linkSeq)}
    /\ \A t \in Threads :
         Walking(t) =>
           /\ lv[t].np \notin freed
           /\ \A u \in Threads : (u # t /\ Preparing(u)) => lv[u].node # lv[t].np


-----------------------------------------------------------------------------
(* A second crash right after recover().                                   *)

\* The slots as a crash right now can leave them.
CrashImages ==
  {[n \in Nodes |-> Reload(c[n])] : c \in DurableChoices(Cardinality(Nodes))}

\* LinkedQ::getQueueNodesIncludingDummy, as the list recover() leaves behind
\* Head: the items of the initialized nodes reached over next.
RECURSIVE WalkItems(_, _)
WalkItems(m, currNode) ==
  LET nextNode == m[currNode].next IN
    IF nextNode = NULL \/ ~m[nextNode].flag THEN << >>
    ELSE <<m[nextNode].item>> \o WalkItems(m, nextNode)

\* The items of the nodes of a sequence.
ItemsOf(m, q) == [i \in 1 .. Len(q) |-> m[q[i]].item]

\* The items of the queue recover() builds from the slots m, the durable
\* Head h and the durable words d of the threads; <<NULL>> if it faults.
RecoverItems(m, h, d) ==
  LET headIndex == Max({d[t].headIndex : t \in Threads}) IN
    CASE engine = "LinkedQ" ->
           IF ~m[h.ptr].flag THEN << >> ELSE WalkItems(m, h.ptr)
      [] engine = "UnlinkedQ" ->
           ItemsOf(m, getQueueNodesAndRetireOthers(m, h.index))
      [] engine = "OptUnlinkedQ" ->
           ItemsOf(m, getQueueNodesAndRetireOthers(m, headIndex))
      [] OTHER ->
           LET queueNodes == getQueueNodes(m, getPotentialTails(d, headIndex),
                                           headIndex) IN
             IF NULL \in queueNodes THEN <<NULL>>
             ELSE ItemsOf(m, AddressOrder(queueNodes))

\* The items of the queue the recover() that ran has built.
FirstItems == [i \in 1 .. Len(rec.nodes) |-> rec.nodes[i].item]

\* C27: for every engine, a crash after recover() has returned and before
\* any enq or deq, followed by a second recover(), gives a queue with the
\* same sequence of items as the first recover() gave.
C27_RecoverTwiceSameItems ==
  JustRecovered =>
    \A m \in CrashImages : \A h \in QHeadPm :
      RecoverItems(m, h, nt) = FirstItems


-----------------------------------------------------------------------------
(* UnlinkedQ: the 16-byte Head.                                            *)

\* The Head CAS of thread t's deq succeeds in this step.
HeadCasStep(t) == pc[t] = "d_cas" /\ pc'[t] = "d_fence" /\ phase' = phase

-----------------------------------------------------------------------------
(* OptLinkedQ, OptUnlinkedQ: the headIndex words.                          *)

\* The values of localData[t].headIndex: the word in memory, then the
\* buffered __writeq stores to it, oldest first.
RECURSIVE HeadIndexStores(_)
HeadIndexStores(ws) ==
  IF ws = << >> THEN << >>
  ELSE (IF Head(ws).f = "headIndex" THEN <<Head(ws).v>> ELSE << >>)
         \o HeadIndexStores(Tail(ws))

HeadIndexValues(t) == <<nt[t].headIndex>> \o HeadIndexStores(wc[t])

\* The value thread t has written to its headIndex last.
LastHeadIndex(t) == HeadIndexValues(t)[Len(HeadIndexValues(t))]

\* C29: in OptLinkedQ and OptUnlinkedQ, before any crash, localData[t].headIndex
\* is written only in steps of thread t, the values written to it never
\* decrease (the store of the deq that returns false included), none is
\* greater than the index of the volatile sentinel, and so none is greater
\* than the number of successful Head CASes.
C29_HeadIndexMonotone ==
  /\ []((IsOpt /\ phase = "run") =>
          \A t \in Threads :
            LET v == HeadIndexValues(t) IN
              /\ \A i \in 1 .. Len(v) - 1 : v[i] <= v[i + 1]
              /\ \A i \in 1 .. Len(v) : v[i] <= mem[QHead.ptr].index /\ v[i] <= nRemoved)
  /\ [][(IsOpt /\ phase = "run" /\ phase' = "run") =>
          \A t \in Threads :
            /\ nt'[t].headIndex >= nt[t].headIndex
            /\ LastHeadIndex(t)' >= LastHeadIndex(t)
            /\ HeadIndexValues(t)' # HeadIndexValues(t) => pc'[t] # pc[t]]_vars

\* A thread that moved Head before stores headIndex again on finding the
\* queue empty.
C29_Witness ==
  /\ IsOpt /\ phase = "run"
  /\ \E t \in Threads :
       /\ pc[t] = "d_efence"
       /\ nt[t].headIndex >= 1
       /\ HeadIndexStores(wc[t]) # << >>

=============================================================================
